---- MODULE Spec2Model ----
(***************************************************************************)
(* Model of the incremental snapshot engine of tscrap:                     *)
(*   src/src/scraping/incremental_logic.py  (IncrementalScraper)           *)
(*   src/src/database/models.py             (schema, transactions)         *)
(*   src/src/main.py, src/src/web_app.py    (the two drivers)              *)
(*                                                                         *)
(* The database is the shared state.  Every method of IncrementalScraper   *)
(* opens a connection of its own (get_cursor), so each method is one       *)
(* transaction under PostgreSQL's default READ COMMITTED isolation.  The   *)
(* drivers run one cycle per username; several drivers (concurrent POSTs   *)
(* of /scrape served by Flask's threaded server, or main.py beside the web *)
(* application) run against the same database, one worker each.            *)
(***************************************************************************)
EXTENDS Integers, Sequences, FiniteSets, TLC

VARIABLES
    profiles,       \* table profiles, rows in insertion order
    snapshots,      \* table profile_snapshots, rows in insertion order
    profile_seq,    \* last value of the sequence behind profiles.id
    snapshot_seq,   \* last value of the sequence behind profile_snapshots.id
    now,            \* the wall clock, in ticks
    ticked,         \* how often Tick has moved the clock
    workers,        \* per driver: position in the cycle and its locals
    reasons,        \* history: reason of the decision behind each snapshot id
    inputs          \* what the acquisition collaborator may deliver (fixed)

vars == <<profiles, snapshots, profile_seq, snapshot_seq, now, ticked, workers,
          reasons, inputs>>

----------------------------------------------------------------------------
(* Bounds of the model.                                                    *)

\* ticks that may pass beside those the commits take
MaxElapsed == 1
\* resolution of the clock
TicksPerDay == 1
MaxSnapshots == 3
MaxProfileSeq == 3

(* Program constants.                                                      *)

\* change_threshold = 0.01, kept as the fraction ThresholdNum / ThresholdDen
ThresholdNum == 1
ThresholdDen == 100
\* timedelta(days=7)
StalenessDays == 7

Workers == {"w1", "w2"}

\* Python's None, for the optional integer values (ids are >= 1).
None == -1
\* Python's None, for the optional text values.
NoText == "None"

Metrics == <<"followers_count", "following_count", "likes_count", "video_count">>

Abs(x) == IF x < 0 THEN -x ELSE x

\* str.lower() on the usernames of the model
Lower(u) == CASE u = "A" -> "a"
              [] u = "B" -> "b"
              [] OTHER -> u

----------------------------------------------------------------------------
(* Python values.                                                          *)

\* dict.get(key, default)
DictGet(d, k, default) == IF k \in DOMAIN d THEN d[k] ELSE default

\* datetime.now(): a naive datetime (no tzinfo)
DatetimeNow(clock) == [t |-> clock, aware |-> FALSE]

\* psycopg2's value of a TIMESTAMP WITH TIME ZONE column: an aware datetime
PgTimestampTz(t) == [t |-> t, aware |-> TRUE]

\* datetime.__sub__: a timedelta, or TypeError "can't subtract offset-naive
\* and offset-aware datetimes" when exactly one operand is aware
DatetimeSub(a, b) ==
    IF a.aware # b.aware
    THEN [raised |-> "TypeError", ticks |-> 0]
    ELSE [raised |-> "", ticks |-> a.t - b.t]

\* timedelta(days=n)
Timedelta(days) == [raised |-> "", ticks |-> days * TicksPerDay]

\* timedelta.days
TimedeltaDays(d) == d.ticks \div TicksPerDay

(* A float that is a ratio of integers is kept as that ratio, den > 0.     *)
(* The doubles of the code order the same way as the exact ratios for the  *)
(* comparison below as long as the baseline fits the INTEGER column.       *)
Ratio(n, d) == [num |-> n, den |-> d]

\* a > b on ratios
RatioGt(a, b) == a.num * b.den > b.num * a.den

\* a >= b on ratios
RatioGeq(a, b) == a.num * b.den >= b.num * a.den

RatioAbs(a) == Ratio(Abs(a.num), a.den)

----------------------------------------------------------------------------
(* IncrementalScraper: the queries and the pure part.                      *)

\* a query without the WHERE clause
SnapshotsOfAny(rows, profile_id) == 1..Len(rows)

SnapshotsOf(rows, profile_id) ==
    {i \in 1..Len(rows) : rows[i].profile_id = profile_id}

\* fetchone() returned None
NoRow == [id |-> None]

\* the query with ORDER BY snapshot_timestamp ASC
get_first_snapshot(rows, profile_id) ==
    LET own == SnapshotsOf(rows, profile_id)
    IN {rows[i] : i \in {j \in own :
            \A k \in own : rows[j].snapshot_timestamp <= rows[k].snapshot_timestamp}}

(* get_last_snapshot: ORDER BY snapshot_timestamp DESC LIMIT 1.  SQL leaves *)
(* the order of rows with equal sort keys open, so among the rows of the   *)
(* profile with the greatest timestamp any one may be returned.  The       *)
(* result is the set of rows the query may return; {} stands for no row.   *)
get_last_snapshot(rows, profile_id) ==
    LET own == SnapshotsOf(rows, profile_id)
    IN {rows[i] : i \in {j \in own :
            \A k \in own : rows[k].snapshot_timestamp <= rows[j].snapshot_timestamp}}

\* the entry of a zero baseline with the percentage taken against 1
ZeroBaselineDeltaComputed(last_val, current_val) ==
    [old_value |-> last_val,
     new_value |-> current_val,
     absolute_change |-> current_val,
     percentage_change |-> Ratio(current_val * 100, 1)]

\* the entry recorded for a metric that leaves a zero baseline
ZeroBaselineDelta(last_val, current_val) ==
    [old_value |-> last_val,
     new_value |-> current_val,
     absolute_change |-> current_val,
     percentage_change |-> Ratio(100, 1)]

\* an entry with the old and the new value in each other's place
DeltaSwapped(last_val, current_val, absolute_change, percentage_change) ==
    [old_value |-> current_val,
     new_value |-> last_val,
     absolute_change |-> absolute_change,
     percentage_change |-> percentage_change]

\* the entry recorded for a metric that moved off a positive baseline
Delta(last_val, current_val, absolute_change, percentage_change) ==
    [old_value |-> last_val,
     new_value |-> current_val,
     absolute_change |-> absolute_change,
     percentage_change |-> percentage_change]

\* one pass of the loop body of calculate_changes for Metrics[i]
RECURSIVE CalcLoop(_, _, _, _)
CalcLoop(i, current_data, last_snapshot, acc) ==
    IF i > Len(Metrics) \/ acc.raised # "" THEN acc
    ELSE
    LET metric == Metrics[i]
        current_val == DictGet(current_data, metric, 0)
        last_val == DictGet(last_snapshot, metric, 0)
        absolute_change == current_val - last_val
        percentage_change == Ratio(absolute_change * 100, last_val)
        raise == [acc EXCEPT !.raised = "TypeError"]
    IN
    IF last_val # None /\ last_val = 0
    THEN IF current_val = None THEN raise      \* None > 0
         ELSE IF current_val > 0
         THEN CalcLoop(i + 1, current_data, last_snapshot,
                [acc EXCEPT !.has_changed = TRUE,
                            !.changes = (metric :>
                                ZeroBaselineDelta(last_val, current_val)) @@ @])
         ELSE CalcLoop(i + 1, current_data, last_snapshot, acc)
    ELSE IF last_val = None THEN raise         \* None > 0
    ELSE IF last_val > 0
    THEN IF current_val = None THEN raise      \* None - int
         ELSE IF RatioGeq(RatioAbs(percentage_change),
                          Ratio(ThresholdNum * 100, ThresholdDen))
         THEN CalcLoop(i + 1, current_data, last_snapshot,
                [acc EXCEPT !.has_changed = TRUE,
                            !.changes = (metric :>
                                Delta(last_val, current_val, absolute_change,
                                      percentage_change)) @@ @])
         ELSE CalcLoop(i + 1, current_data, last_snapshot, acc)
    ELSE CalcLoop(i + 1, current_data, last_snapshot, acc)

\* calculate_changes(current_data, last_snapshot) -> (has_changed, changes)
calculate_changes(current_data, last_snapshot) ==
    CalcLoop(1, current_data, last_snapshot,
             [raised |-> "", has_changed |-> FALSE, changes |-> <<>>])

(* should_create_snapshot after its query: last is the fetched row, or     *)
(* NoRow.  The result holds the returned pair, or the exception raised,    *)
(* and the locals has_changed / changes for the history.                   *)

Decision(raised, should_create, change_analysis, det) ==
    [raised |-> raised, should_create |-> should_create,
     change_analysis |-> change_analysis,
     has_changed |-> det.has_changed, changes |-> det.changes]

\* a comparison that looks at the age of the baseline before the changes
compare_with_last_age_first(last_snapshot, current_data, clock) ==
    LET det == calculate_changes(current_data, last_snapshot)
        last_timestamp == PgTimestampTz(last_snapshot.snapshot_timestamp)
        time_since_last == DatetimeSub(DatetimeNow(clock), last_timestamp)
    IN
    IF det.raised # ""
    THEN Decision(det.raised, FALSE, [reason |-> "raised"], det)
    ELSE IF time_since_last.raised # ""
    THEN Decision(time_since_last.raised, FALSE, [reason |-> "raised"], det)
    ELSE IF time_since_last.ticks > Timedelta(StalenessDays).ticks
    THEN Decision("", TRUE,
                  [reason |-> "periodic_snapshot",
                   days_since_last |-> TimedeltaDays(time_since_last)], det)
    ELSE IF det.has_changed
    THEN Decision("", TRUE,
                  [reason |-> "metrics_changed",
                   changes |-> det.changes,
                   previous_snapshot_id |-> last_snapshot.id], det)
    ELSE Decision("", FALSE, [reason |-> "no_significant_changes"], det)

\* should_create_snapshot from calculate_changes on: a baseline was fetched
compare_with_last(last_snapshot, current_data, clock) ==
    LET det == calculate_changes(current_data, last_snapshot)
        last_timestamp == PgTimestampTz(last_snapshot.snapshot_timestamp)
        time_since_last == DatetimeSub(DatetimeNow(clock), last_timestamp)
    IN
    IF det.raised # ""
    THEN Decision(det.raised, FALSE, [reason |-> "raised"], det)
    ELSE IF det.has_changed
    THEN Decision("", TRUE,
                  [reason |-> "metrics_changed",
                   changes |-> det.changes,
                   previous_snapshot_id |-> last_snapshot.id], det)
    ELSE IF time_since_last.raised # ""
    THEN Decision(time_since_last.raised, FALSE, [reason |-> "raised"], det)
    ELSE IF time_since_last.ticks > Timedelta(StalenessDays).ticks
    THEN Decision("", TRUE,
                  [reason |-> "periodic_snapshot",
                   days_since_last |-> TimedeltaDays(time_since_last)], det)
    ELSE Decision("", FALSE, [reason |-> "no_significant_changes"], det)

\* a decision that finds nothing to report where no baseline was fetched
should_create_snapshot_no_first(last_snapshot, current_data, clock) ==
    IF last_snapshot = NoRow
    THEN Decision("", FALSE, [reason |-> "no_significant_changes"],
                  [has_changed |-> FALSE, changes |-> <<>>])
    ELSE compare_with_last(last_snapshot, current_data, clock)

should_create_snapshot(last_snapshot, current_data, clock) ==
    IF last_snapshot = NoRow
    THEN Decision("", TRUE, [reason |-> "first_snapshot"],
                  [has_changed |-> FALSE, changes |-> <<>>])
    ELSE compare_with_last(last_snapshot, current_data, clock)

----------------------------------------------------------------------------
(* IncrementalScraper: the statements that read and write the registry.    *)

\* SELECT id FROM profiles WHERE username = lower(username); None: no row
SelectProfile(rows, username) ==
    LET hit == {i \in 1..Len(rows) : rows[i].username = Lower(username)}
    IN IF hit = {} THEN None ELSE rows[CHOOSE i \in hit : TRUE].id

\* UPDATE profiles SET last_checked = now WHERE id = profile_id
UpdateLastChecked(rows, profile_id, clock) ==
    [i \in 1..Len(rows) |->
        IF rows[i].id = profile_id
        THEN [rows[i] EXCEPT !.last_checked = clock]
        ELSE rows[i]]

(* INSERT INTO profiles ... RETURNING id.  The id is drawn from the        *)
(* sequence before the UNIQUE indexes (username, then profile_id) are      *)
(* checked, and a drawn value is not given back when the insert fails.     *)
InsertProfile(rows, seq, username, profile_data, clock) ==
    LET id == seq + 1
        tid == DictGet(profile_data, "profile_id", NoText)
        row == [id |-> id,
                username |-> Lower(username),
                profile_id |-> tid,
                attrs |-> DictGet(profile_data, "attrs", NoText),
                last_checked |-> clock,
                is_active |-> TRUE]
    IN
    IF \E i \in 1..Len(rows) : rows[i].username = row.username
    THEN [raised |-> "UniqueViolation", constraint |-> "profiles_username_key",
          rows |-> rows, seq |-> id, id |-> None]
    ELSE IF tid # NoText /\ \E i \in 1..Len(rows) : rows[i].profile_id = tid
    THEN [raised |-> "UniqueViolation", constraint |-> "profiles_profile_id_key",
          rows |-> rows, seq |-> id, id |-> None]
    ELSE [raised |-> "", constraint |-> "",
          rows |-> Append(rows, row), seq |-> id, id |-> id]

\* a flag that marks the snapshots taken for a change of the metrics only
ChangeDetectedByMetrics(change_analysis) ==
    change_analysis.reason = "metrics_changed"

\* the value bound to change_detected
ChangeDetected(change_analysis) ==
    change_analysis.reason # "no_significant_changes"

\* a table without REFERENCES constraints
ReferencesUnchecked(rows, profs, profile_id, previous) == TRUE

\* profile_id REFERENCES profiles(id), previous_snapshot_id REFERENCES
\* profile_snapshots(id); NULL satisfies a reference
ReferencesHold(rows, profs, profile_id, previous) ==
    /\ profile_id = None \/ \E i \in 1..Len(profs) : profs[i].id = profile_id
    /\ previous = None \/ \E i \in 1..Len(rows) : rows[i].id = previous

(* create_snapshot: INSERT INTO profile_snapshots ... RETURNING id.  The   *)
(* two REFERENCES constraints are checked by the database against the      *)
(* committed rows; the capture timestamp is the column default             *)
(* CURRENT_TIMESTAMP, the start of the transaction.                        *)
create_snapshot(rows, profs, seq, profile_id, profile_data, change_analysis, clock) ==
    LET id == seq + 1
        previous == DictGet(change_analysis, "previous_snapshot_id", None)
        row == [id |-> id,
                profile_id |-> profile_id,
                followers_count |-> DictGet(profile_data, "followers_count", None),
                following_count |-> DictGet(profile_data, "following_count", None),
                likes_count |-> DictGet(profile_data, "likes_count", None),
                video_count |-> DictGet(profile_data, "video_count", None),
                snapshot_timestamp |-> clock,
                change_detected |-> ChangeDetected(change_analysis),
                previous_snapshot_id |-> previous,
                raw_data |-> DictGet(profile_data, "raw_data", NoText)]
    IN
    IF ~ ReferencesHold(rows, profs, profile_id, previous)
    THEN [raised |-> "ForeignKeyViolation", row |-> NoRow, seq |-> id, id |-> None]
    ELSE [raised |-> "", row |-> row, seq |-> id, id |-> id]

\* a commit that replaces the profile's row where it has one
UpsertRow(rows, row) ==
    IF SnapshotsOf(rows, row.profile_id) = {}
    THEN Append(rows, row)
    ELSE [i \in 1..Len(rows) |->
            IF rows[i].profile_id = row.profile_id THEN row ELSE rows[i]]

\* conn.commit() of create_snapshot: the inserted row joins the table
CommitRow(rows, row) == Append(rows, row)

----------------------------------------------------------------------------
(* The drivers: scrape_profiles (main.py) and run_scraping (web_app.py)    *)
(* run the same cycle per username.                                        *)

\* scrape_profile returned None
NoData == [ok |-> FALSE]

NoDecision == [raised |-> "", should_create |-> FALSE,
               change_analysis |-> [reason |-> "none"],
               has_changed |-> FALSE, changes |-> <<>>]

NoException == [type |-> "", constraint |-> ""]

\* seen_count is history: the number of committed snapshots the worker's
\* decision saw;
\* inserted is the row of create_snapshot's open transaction;
\* asleep_since is the clock at the call of asyncio.sleep;
\* exception is the exception in flight; result is the outcome of the last
\* cycle as the driver's results list holds it (failed, success, error)
IdleWorker == [pc |-> "idle", username |-> "", profile_data |-> NoData,
               profile_id |-> None, last_snapshot |-> NoRow,
               seen_count |-> None, asleep_since |-> None, inserted |-> NoRow,
               decision |-> NoDecision, exception |-> NoException,
               result |-> "none"]

\* an exception leaves the core and reaches the driver's try block
Raise(w, type, constraint) ==
    [workers EXCEPT ![w].pc = "raised",
                    ![w].exception = [type |-> type, constraint |-> constraint]]

\* a driver that goes on into the core whatever scrape_profile returned
ScrapeUnchecked(w) ==
    /\ workers[w].pc = "idle"
    /\ \E username \in DOMAIN inputs :
       \E data \in inputs[username] \cup {NoData} :
         workers' = [workers EXCEPT ![w] =
            [IdleWorker EXCEPT !.pc = "resolve",
                               !.username = username,
                               !.profile_data = data]]
    /\ UNCHANGED <<profiles, snapshots, profile_seq, snapshot_seq, now, ticked, reasons, inputs>>

(* profile_data = await scrape_profile(username); if not profile_data:     *)
(* record the failure and continue with the next username.                 *)
Scrape(w) ==
    /\ workers[w].pc = "idle"
    /\ \E username \in DOMAIN inputs :
       \E data \in inputs[username] \cup {NoData} :
         workers' = [workers EXCEPT ![w] =
            IF data = NoData
            THEN [IdleWorker EXCEPT !.result = "failed"]
            ELSE [IdleWorker EXCEPT !.pc = "resolve",
                                    !.username = username,
                                    !.profile_data = data]]
    /\ UNCHANGED <<profiles, snapshots, profile_seq, snapshot_seq, now, ticked, reasons, inputs>>

\* get_or_create_profile, its SELECT
Select(w) ==
    /\ workers[w].pc = "resolve"
    /\ LET found == SelectProfile(profiles, workers[w].username)
       IN workers' = [workers EXCEPT ![w].profile_id = found,
                                     ![w].pc = IF found # None THEN "update" ELSE "insert"]
    /\ UNCHANGED <<profiles, snapshots, profile_seq, snapshot_seq, now, ticked, reasons, inputs>>

\* get_or_create_profile, the row was found: UPDATE, commit, return its id
Update(w) ==
    /\ workers[w].pc = "update"
    /\ profiles' = UpdateLastChecked(profiles, workers[w].profile_id, now)
    /\ workers' = [workers EXCEPT ![w].pc = "decide"]
    /\ UNCHANGED <<snapshots, profile_seq, snapshot_seq, now, ticked, reasons, inputs>>

(* get_or_create_profile, no row was found: INSERT, commit, return the new *)
(* id.  A violated constraint raises; get_cursor rolls back and re-raises, *)
(* and the driver records the error.                                       *)
Insert(w) ==
    /\ workers[w].pc = "insert"
    /\ profile_seq < MaxProfileSeq
    /\ LET r == InsertProfile(profiles, profile_seq, workers[w].username,
                              workers[w].profile_data, now)
       IN /\ profiles' = r.rows
          /\ profile_seq' = r.seq
          /\ workers' = IF r.raised # ""
                        THEN Raise(w, r.raised, r.constraint)
                        ELSE [workers EXCEPT ![w].profile_id = r.id,
                                             ![w].pc = "decide"]
    /\ UNCHANGED <<snapshots, snapshot_seq, now, ticked, reasons, inputs>>

\* a decision that touches last_checked of the profile it reads
ReadAndTouch(w) ==
    /\ profiles' = UpdateLastChecked(profiles, workers[w].profile_id, now + 1)
    /\ UNCHANGED <<snapshots, profile_seq, snapshot_seq>>

\* what should_create_snapshot does to the database: get_last_snapshot runs
\* one SELECT under get_cursor() and nothing is written
ReadOnly(w) == UNCHANGED <<profiles, snapshots, profile_seq, snapshot_seq>>

(* should_create_snapshot: the query of get_last_snapshot and the decision *)
(* on its row.                                                             *)
Decide(w) ==
    /\ workers[w].pc = "decide"
    /\ LET fetched == get_last_snapshot(snapshots, workers[w].profile_id)
       IN \E last \in (IF fetched = {} THEN {NoRow} ELSE fetched) :
            LET d == should_create_snapshot(last, workers[w].profile_data, now)
                seen == [workers EXCEPT ![w].last_snapshot = last,
                                        ![w].seen_count = Len(snapshots),
                                        ![w].decision = d]
            IN workers' =
                 IF d.raised # ""
                 THEN [seen EXCEPT ![w].pc = "raised",
                                   ![w].exception = [type |-> d.raised,
                                                     constraint |-> ""]]
                 ELSE IF d.should_create
                 THEN [seen EXCEPT ![w].pc = "create"]
                 ELSE [seen EXCEPT ![w].pc = "sleep",
                                   ![w].asleep_since = now,
                                   ![w].result = "success"]
    /\ ReadOnly(w)
    /\ UNCHANGED <<now, ticked, reasons, inputs>>

(* if should_create: create_snapshot(profile_id, profile_data,             *)
(* change_analysis), up to its INSERT: the transaction starts, the row     *)
(* gets its id and its timestamp; other transactions do not see it yet.    *)
CreateSnapshot(w) ==
    /\ workers[w].pc = "create"
    /\ snapshot_seq < MaxSnapshots
    /\ LET r == create_snapshot(snapshots, profiles, snapshot_seq,
                                workers[w].profile_id, workers[w].profile_data,
                                workers[w].decision.change_analysis, now)
       IN /\ snapshot_seq' = r.seq
          /\ workers' = IF r.raised # ""
                        THEN Raise(w, r.raised, "")
                        ELSE [workers EXCEPT ![w].pc = "commit",
                                             ![w].inserted = r.row]
    /\ UNCHANGED <<profiles, snapshots, profile_seq, now, ticked, reasons, inputs>>

(* create_snapshot, leaving get_cursor(commit=True): the row is committed  *)
(* and the id returned.  The commit takes time: the clock has moved on     *)
(* when it returns.                                                        *)
CommitSnapshot(w) ==
    /\ workers[w].pc = "commit"
    /\ snapshots' = CommitRow(snapshots, workers[w].inserted)
    /\ reasons' = (workers[w].inserted.id :> workers[w].decision.change_analysis.reason)
                      @@ reasons
    /\ now' = now + 1
    /\ workers' = [workers EXCEPT ![w].pc = "sleep",
                                  ![w].asleep_since = now + 1,
                                  ![w].result = "success"]
    /\ UNCHANGED <<profiles, profile_seq, snapshot_seq, ticked, inputs>>

(* except Exception as e: the driver logs the error, records it in its     *)
(* results and goes on with the next username.                             *)
Except(w) ==
    /\ workers[w].pc = "raised"
    /\ workers' = [workers EXCEPT ![w] = [IdleWorker EXCEPT !.result = "error"]]
    /\ UNCHANGED <<profiles, snapshots, profile_seq, snapshot_seq, now, ticked, reasons, inputs>>

(* await asyncio.sleep(2) returns: the clock has moved on since the call   *)
(* when the driver takes the next username.                                *)
Sleep(w) ==
    /\ workers[w].pc = "sleep"
    /\ now > workers[w].asleep_since
    /\ workers' = [workers EXCEPT ![w] = [IdleWorker EXCEPT !.result = workers[w].result]]
    /\ UNCHANGED <<profiles, snapshots, profile_seq, snapshot_seq, now, ticked, reasons, inputs>>

\* time passes
Tick ==
    /\ ticked < MaxElapsed
    /\ ticked' = ticked + 1
    /\ now' = now + 1
    /\ UNCHANGED <<profiles, snapshots, profile_seq, snapshot_seq, workers, reasons, inputs>>

Next ==
    \/ \E w \in Workers :
         \/ Scrape(w)
         \/ Select(w)
         \/ Update(w)
         \/ Insert(w)
         \/ Decide(w)
         \/ CreateSnapshot(w)
         \/ CommitSnapshot(w)
         \/ Except(w)
         \/ Sleep(w)
    \/ Tick

----------------------------------------------------------------------------
(* What the acquisition collaborator delivers.                             *)

(* The dictionary scrape_profile returns.  attrs stands for display_name,   *)
(* bio, avatar_url and verified together; raw_data is the payload, taken   *)
(* as a value the driver of the database adapts for the JSONB column.      *)
Observation(tid, attrs, followers, following, likes, videos) ==
    [ok |-> TRUE, profile_id |-> tid, attrs |-> attrs,
     followers_count |-> followers, following_count |-> following,
     likes_count |-> likes, video_count |-> videos, raw_data |-> attrs]

EmptyDatabase ==
    /\ profiles = <<>>
    /\ snapshots = <<>>
    /\ profile_seq = 0
    /\ snapshot_seq = 0
    /\ reasons = <<>>
    /\ now = 0
    /\ ticked = 0
    /\ workers = [w \in Workers |-> IdleWorker]

(* Two drivers over an empty database.  The inputs give, per username the  *)
(* drivers are asked for, the observations the acquisition may deliver:    *)
(*   - one key in two spellings, one account whose likes count leaves and  *)
(*     reaches zero;                                                       *)
(*   - two keys and two accounts;                                          *)
(*   - two keys that lead to the same account (it was renamed).            *)
OneKey ==
    LET seen == {Observation("t1", "n1", 100, 100, l, 0) : l \in {0, 50}}
    IN ("a" :> seen) @@ ("A" :> seen)

TwoKeys ==
    ("a" :> {Observation("t1", "n1", 100, 100, 0, 0)})
    @@ ("b" :> {Observation("t2", "n2", 100, 100, 50, 0)})

Renamed ==
    ("a" :> {Observation("t1", "n1", 100, 100, 0, 0)})
    @@ ("b" :> {Observation("t1", "n2", 100, 100, 0, 0)})

Init ==
    /\ EmptyDatabase
    /\ inputs \in {OneKey, TwoKeys, Renamed}

Spec == Init /\ [][Next]_vars

----------------------------------------------------------------------------
(* The decision on its own: a driver that has resolved profile 1 is about  *)
(* to decide on an observation drawn from a wider set of metric values,    *)
(* against a database that holds either no snapshot of the profile or one  *)
(* baseline, drawn from the same set, taken a tick, 7 days or 7 days and   *)
(* a tick ago.                                                             *)

BoundaryVals == {0, 99, 100, 101}
CoarseVals == {0, 100}
BaselineAges == {1, StalenessDays * TicksPerDay, StalenessDays * TicksPerDay + 1}

WideObservations ==
    {Observation("t1", "n1", f, g, l, v) :
        f \in BoundaryVals, g \in CoarseVals, l \in BoundaryVals, v \in CoarseVals}

InitDetector ==
    /\ inputs = ("a" :> WideObservations)
    /\ now \in BaselineAges
    /\ ticked = 0
    /\ profiles = <<[id |-> 1, username |-> "a", profile_id |-> "t1",
                     attrs |-> "n1", last_checked |-> now, is_active |-> TRUE]>>
    /\ profile_seq = 1
    /\ \/ /\ snapshots = <<>>
          /\ snapshot_seq = 0
          /\ reasons = <<>>
       \/ /\ \E base \in WideObservations :
               snapshots = <<create_snapshot(<<>>, profiles, 0, 1, base,
                                             [reason |-> "first_snapshot"], 0).row>>
          /\ snapshot_seq = 1
          /\ reasons = (1 :> "first_snapshot")
    /\ \E data \in inputs["a"] :
         workers = [w \in Workers |->
            IF w = "w1"
            THEN [IdleWorker EXCEPT !.pc = "decide", !.username = "a",
                                    !.profile_data = data, !.profile_id = 1]
            ELSE IdleWorker]

NextDetector ==
    \/ \E w \in Workers :
         \/ Decide(w)
         \/ CreateSnapshot(w)
         \/ CommitSnapshot(w)
         \/ Except(w)
         \/ Sleep(w)
    \/ Tick

SpecDetector == InitDetector /\ [][NextDetector]_vars

----------------------------------------------------------------------------
(* Observations that leave a tracked metric out: two drivers over an empty *)
(* database, one account, every observation without one of its metrics.    *)

\* the dictionary without the key
Without(data, key) == [k \in DOMAIN data \ {key} |-> data[k]]

SparseObservations ==
    {Without(Observation("t1", "n1", 100, 100, 50, 0), "likes_count"),
     Without(Observation("t1", "n1", 100, 100, 50, 0), "video_count")}

InitSparse ==
    /\ EmptyDatabase
    /\ inputs = ("a" :> SparseObservations)

SpecSparse == InitSparse /\ [][Next]_vars

----------------------------------------------------------------------------
(* create_snapshot as a public method: beside the cycles of one driver, a  *)
(* caller invokes create_snapshot(profile_id, profile_data,                *)
(* change_analysis) with arguments of its own choice.                      *)

Driver == "w1"
Caller == "w2"

\* an id the sequence behind profiles.id does not reach
UnknownProfileId == MaxProfileSeq + 1

\* the analyses should_create_snapshot can return, for baseline 1
Analyses ==
    {[reason |-> "first_snapshot"],
     [reason |-> "metrics_changed", changes |-> <<>>, previous_snapshot_id |-> 1],
     [reason |-> "periodic_snapshot", days_since_last |-> StalenessDays],
     [reason |-> "no_significant_changes"]}

\* the observation the caller passes
CallerObservation == Observation("t1", "n1", 100, 100, 50, 0)

CallCreateSnapshot(w) ==
    /\ workers[w].pc = "idle"
    /\ \E profile_id \in {1, UnknownProfileId} :
       \E change_analysis \in Analyses :
         workers' = [workers EXCEPT ![w] =
            [IdleWorker EXCEPT !.pc = "create",
                               !.profile_id = profile_id,
                               !.profile_data = CallerObservation,
                               !.decision = [NoDecision EXCEPT
                                    !.change_analysis = change_analysis]]]
    /\ UNCHANGED <<profiles, snapshots, profile_seq, snapshot_seq, now, ticked, reasons, inputs>>

InitStore ==
    /\ EmptyDatabase
    /\ inputs = ("a" :> {Observation("t1", "n1", 100, 100, l, 0) : l \in {0, 50}})

NextStore ==
    \/ Scrape(Driver)
    \/ Select(Driver)
    \/ Update(Driver)
    \/ Insert(Driver)
    \/ Decide(Driver)
    \/ CallCreateSnapshot(Caller)
    \/ \E w \in Workers :
         \/ CreateSnapshot(w)
         \/ CommitSnapshot(w)
         \/ Except(w)
         \/ Sleep(w)
    \/ Tick

SpecStore == InitStore /\ [][NextStore]_vars

----------------------------------------------------------------------------
(* One driver alone: its cycles, and with them the calls of the core, run  *)
(* one after the other.                                                    *)

NextSequential ==
    \/ Scrape(Driver)
    \/ Select(Driver)
    \/ Update(Driver)
    \/ Insert(Driver)
    \/ Decide(Driver)
    \/ CreateSnapshot(Driver)
    \/ CommitSnapshot(Driver)
    \/ Except(Driver)
    \/ Sleep(Driver)
    \/ Tick

SpecSequential == Init /\ [][NextSequential]_vars

----------------------------------------------------------------------------
(* An account that changes its display attributes between observations:    *)
(* two drivers over an empty database, one key.                            *)

InitAttributes ==
    /\ EmptyDatabase
    /\ inputs = ("a" :> {Observation("t1", n, 100, 100, 0, 0) : n \in {"n1", "n2"}})

SpecAttributes == InitAttributes /\ [][Next]_vars

----------------------------------------------------------------------------
(* Two accounts, two drivers with a list of usernames each: the first      *)
(* driver is asked for both accounts, the second for one of them.  The     *)
(* likes count of the account only the first driver follows leaves and     *)
(* reaches zero.                                                           *)

\* for username in usernames: the driver takes the usernames of its list
ScrapeOf(w, usernames) ==
    /\ Scrape(w)
    /\ workers'[w].username \in usernames \cup {""}

InitChains ==
    /\ EmptyDatabase
    /\ inputs = ("a" :> {Observation("t1", "n1", 100, 100, l, 0) : l \in {0, 50}})
                 @@ ("b" :> {Observation("t2", "n2", 100, 100, 50, 0)})

NextChains ==
    \/ ScrapeOf("w1", {"a", "b"})
    \/ ScrapeOf("w2", {"b"})
    \/ \E w \in Workers :
         \/ Select(w)
         \/ Update(w)
         \/ Insert(w)
         \/ Decide(w)
         \/ CreateSnapshot(w)
         \/ CommitSnapshot(w)
         \/ Except(w)
         \/ Sleep(w)
    \/ Tick

SpecChains == InitChains /\ [][NextChains]_vars

----------------------------------------------------------------------------
(* One driver and an account that gains followers slowly: between two      *)
(* cycles of the driver the account gains at most one follower, which is   *)
(* less than 1% of the count it has.                                       *)

MaxDrift == 5

DriftBase == Observation("t1", "n1", 200, 100, 0, 0)

\* time passes and the account gains a follower after the driver has
\* observed it
Drift ==
    /\ workers[Driver].pc \in {"sleep", "raised"}
    /\ workers[Driver].username \in DOMAIN inputs
    /\ inputs[workers[Driver].username] = {workers[Driver].profile_data}
    /\ workers[Driver].profile_data.followers_count
          < DriftBase.followers_count + MaxDrift
    /\ inputs' = [inputs EXCEPT ![workers[Driver].username] =
                    {[workers[Driver].profile_data EXCEPT !.followers_count = @ + 1]}]
    /\ now' = now + 1
    /\ UNCHANGED <<profiles, snapshots, profile_seq, snapshot_seq, ticked,
                   workers, reasons>>

InitDrift ==
    /\ EmptyDatabase
    /\ inputs = ("a" :> {DriftBase})

NextDrift ==
    \/ NextSequential
    \/ Drift

SpecDrift == InitDrift /\ [][NextDrift]_vars

----------------------------------------------------------------------------
(* Properties.                                                             *)

MetricNames == {Metrics[i] : i \in 1..Len(Metrics)}

\* the worker has left should_create_snapshot in this cycle
Decided(w) == workers[w].seen_count # None

\* the step in which worker w runs should_create_snapshot
DecideStep(w) == workers[w].pc = "decide" /\ workers'[w].pc # "decide"

\* the worker's decision is the returned pair (should_create, reason)
Returned(w, should_create, reason) ==
    /\ workers[w].decision.raised = ""
    /\ workers[w].decision.should_create = should_create
    /\ workers[w].decision.change_analysis.reason = reason

FirstSnapshotsOf(profile_id) ==
    {i \in SnapshotsOf(snapshots, profile_id) :
        reasons[snapshots[i].id] = "first_snapshot"}

(* C1: whatever the interleaving of the drivers' decide -> append cycles,  *)
(* an entity that has snapshots has exactly one that was appended for the  *)
(* reason first_snapshot.                                                  *)
C1_OneFirstSnapshot ==
    \A i \in 1..Len(profiles) :
        SnapshotsOf(snapshots, profiles[i].id) # {} =>
            Cardinality(FirstSnapshotsOf(profiles[i].id)) = 1

\* get_or_create_profile has returned to worker w in this cycle
Resolved(w) == workers[w].pc \in {"decide", "create", "commit", "sleep"}

(* C2: a collision of two get_or_create_profile calls on the same          *)
(* normalized key never surfaces as a failure of a call, the calls return  *)
(* the same id, and the key has at most one row.                           *)
C2_ResolveNeverFailsOnKey ==
    /\ \A w \in Workers :
          ~ (workers[w].pc = "raised"
             /\ workers[w].exception.constraint = "profiles_username_key")
    /\ \A w1, w2 \in Workers :
          (/\ Resolved(w1) /\ Resolved(w2)
           /\ Lower(workers[w1].username) = Lower(workers[w2].username))
             => workers[w1].profile_id = workers[w2].profile_id
    /\ \A i, j \in 1..Len(profiles) :
          profiles[i].username = profiles[j].username => i = j

(* C3: a decision taken for an entity that has no snapshot returns         *)
(* (True, first_snapshot), whatever the observation.                       *)
C3_FirstSnapshot ==
    [][\A w \in Workers :
         (DecideStep(w) /\ SnapshotsOf(snapshots, workers[w].profile_id) = {})
            => /\ workers'[w].decision.raised = ""
               /\ workers'[w].decision.should_create
               /\ workers'[w].decision.change_analysis = [reason |-> "first_snapshot"]]_vars

C3_Witness ==
    \E w \in Workers :
        /\ workers[w].pc = "create"
        /\ Returned(w, TRUE, "first_snapshot")
        /\ SnapshotsOf(snapshots, workers[w].profile_id) = {}
        /\ workers[w].profile_data.followers_count = 101
        /\ workers[w].profile_data.likes_count = 0

\* every tracked metric of the observation equals the baseline's
Unchanged(data, last) == \A m \in MetricNames : data[m] = last[m]

(* C4: a decision against a baseline whose four metrics equal the          *)
(* observation's and that is at most 7 days old returns                    *)
(* (False, no_significant_changes).                                        *)
C4_UnchangedWithinWindow ==
    [][\A w \in Workers :
         (/\ DecideStep(w)
          /\ workers'[w].last_snapshot # NoRow
          /\ Unchanged(workers[w].profile_data, workers'[w].last_snapshot)
          /\ now - workers'[w].last_snapshot.snapshot_timestamp
                <= StalenessDays * TicksPerDay)
            => /\ workers'[w].decision.raised = ""
               /\ ~ workers'[w].decision.should_create
               /\ workers'[w].decision.change_analysis.reason = "no_significant_changes"]_vars

(* C5: for a metric whose baseline is positive, the detector records the   *)
(* metric, and reports a change, exactly when 100 * |current - baseline|   *)
(* >= baseline: the 1% boundary included, for rises and falls alike.       *)
C5_ThresholdInclusive ==
    \A w \in Workers :
        (Decided(w) /\ workers[w].last_snapshot # NoRow) =>
            \A m \in MetricNames :
                LET base == workers[w].last_snapshot[m]
                    cur == workers[w].profile_data[m]
                IN base > 0 =>
                    /\ (m \in DOMAIN workers[w].decision.changes)
                           <=> (100 * Abs(cur - base) >= base)
                    /\ (m \in DOMAIN workers[w].decision.changes)
                           => workers[w].decision.has_changed

\* a rise and a fall of exactly 1% in one decision, both recorded
C5_Witness ==
    \E w \in Workers :
        /\ Decided(w)
        /\ workers[w].last_snapshot # NoRow
        /\ workers[w].last_snapshot.followers_count = 100
        /\ workers[w].profile_data.followers_count = 101
        /\ workers[w].last_snapshot.likes_count = 100
        /\ workers[w].profile_data.likes_count = 99
        /\ DOMAIN workers[w].decision.changes = {"followers_count", "likes_count"}

(* C6: a metric that leaves a zero baseline for a positive value is        *)
(* recorded as {old 0, new current, absolute current, percent 100.0}, and  *)
(* the decision is (True, metrics_changed).                                *)
C6_ZeroBaseline ==
    \A w \in Workers :
        (Decided(w) /\ workers[w].last_snapshot # NoRow) =>
            \A m \in MetricNames :
                (workers[w].last_snapshot[m] = 0 /\ workers[w].profile_data[m] > 0) =>
                    /\ m \in DOMAIN workers[w].decision.changes
                    /\ workers[w].decision.changes[m] =
                          [old_value |-> 0,
                           new_value |-> workers[w].profile_data[m],
                           absolute_change |-> workers[w].profile_data[m],
                           percentage_change |-> Ratio(100, 1)]
                    /\ workers[w].decision.has_changed
                    /\ Returned(w, TRUE, "metrics_changed")
                    /\ workers[w].decision.change_analysis.changes
                          = workers[w].decision.changes

C6_Witness ==
    \E w \in Workers :
        /\ Decided(w)
        /\ workers[w].last_snapshot # NoRow
        /\ workers[w].last_snapshot.likes_count = 0
        /\ workers[w].profile_data.likes_count = 99
        /\ Unchanged([workers[w].profile_data EXCEPT !.likes_count = 0],
                     workers[w].last_snapshot)
        /\ workers[w].decision.changes.likes_count.percentage_change = Ratio(100, 1)
        /\ workers[w].pc = "create"

(* C7: a decision in which the detector reports no change returns          *)
(* periodic_snapshot exactly when the baseline is more than 7 days old,    *)
(* and no_significant_changes otherwise (7 days exactly included).         *)
C7_StalenessBoundary ==
    [][\A w \in Workers :
         (/\ DecideStep(w)
          /\ workers'[w].last_snapshot # NoRow
          /\ ~ workers'[w].decision.has_changed)
            => LET age == now - workers'[w].last_snapshot.snapshot_timestamp
                   stale == age > StalenessDays * TicksPerDay
               IN /\ workers'[w].decision.raised = ""
                  /\ workers'[w].decision.change_analysis.reason =
                        IF stale THEN "periodic_snapshot"
                        ELSE "no_significant_changes"
                  /\ workers'[w].decision.should_create = stale]_vars

(* C8: two decisions for the same entity on the same observation, with no  *)
(* snapshot of the entity appended between them, have the same outcome.    *)
C8_DecideIdempotent ==
    \A w1, w2 \in Workers :
        (/\ Decided(w1) /\ Decided(w2)
         /\ workers[w1].profile_id = workers[w2].profile_id
         /\ workers[w1].profile_data = workers[w2].profile_data
         /\ workers[w1].seen_count <= workers[w2].seen_count
         /\ \A i \in SnapshotsOf(snapshots, workers[w1].profile_id) :
               ~ (workers[w1].seen_count < i /\ i <= workers[w2].seen_count))
            => workers[w1].decision = workers[w2].decision

\* the snapshot that was the entity's latest when row i was appended:
\* greatest timestamp among the entity's earlier rows, the later row on a tie
LatestBefore(i) ==
    LET earlier == {j \in SnapshotsOf(snapshots, snapshots[i].profile_id) : j < i}
    IN IF earlier = {} THEN None
       ELSE snapshots[CHOOSE j \in earlier : \A k \in earlier :
                \/ snapshots[k].snapshot_timestamp < snapshots[j].snapshot_timestamp
                \/ (snapshots[k].snapshot_timestamp = snapshots[j].snapshot_timestamp
                    /\ k <= j)].id

(* C9: the snapshots of an entity form one chain: the first has no         *)
(* previous_snapshot_id, every later one refers to the snapshot that was   *)
(* the entity's latest when it was appended.                               *)
C9_SingleChain ==
    \A i \in 1..Len(snapshots) :
        snapshots[i].previous_snapshot_id = LatestBefore(i)

(* C10: a persisted snapshot is never changed or removed: in every step    *)
(* the old table is a prefix of the new one.                               *)
C10_AppendOnly ==
    [][/\ Len(snapshots') >= Len(snapshots)
       /\ \A i \in 1..Len(snapshots) : snapshots'[i] = snapshots[i]]_vars

\* a second snapshot of an entity was appended, and its row touched by an
\* UPDATE of get_or_create_profile since
C10_Witness ==
    \E i, j \in 1..Len(snapshots) :
        /\ i < j
        /\ snapshots[i].profile_id = snapshots[j].profile_id
        /\ \E k \in 1..Len(profiles) :
              /\ profiles[k].id = snapshots[i].profile_id
              /\ profiles[k].last_checked > snapshots[j].snapshot_timestamp

(* C11: calculate_changes and should_create_snapshot do not raise on       *)
(* observations whose metrics are non-negative integers or absent, and a   *)
(* metric that was absent in the observation persisted as the baseline is  *)
(* compared as 0: it is recorded exactly when the current value is         *)
(* positive.                                                               *)
C11_AbsentIsZero ==
    \A w \in Workers :
        (Decided(w) /\ workers[w].last_snapshot # NoRow) =>
            LET det == calculate_changes(workers[w].profile_data,
                                         workers[w].last_snapshot)
            IN /\ det.raised = ""
               /\ workers[w].decision.raised = ""
               /\ \A m \in MetricNames :
                     workers[w].last_snapshot[m] = None =>
                        ((m \in DOMAIN det.changes)
                            <=> DictGet(workers[w].profile_data, m, 0) > 0)

(* C12: the change_detected written by create_snapshot is true exactly     *)
(* when the reason of the analysis is not no_significant_changes, and      *)
(* every row a driver inserts (after should_create_snapshot returned True) *)
(* has change_detected true.                                               *)
C12_FlaggedIffReason ==
    /\ \A i \in 1..Len(snapshots) :
          snapshots[i].change_detected
             = (reasons[snapshots[i].id] # "no_significant_changes")
    /\ \A w \in Workers :
          workers[w].pc = "commit" =>
             /\ workers[w].inserted.change_detected
                   = (workers[w].decision.change_analysis.reason
                         # "no_significant_changes")
             /\ Decided(w) => /\ workers[w].decision.should_create
                              /\ workers[w].inserted.change_detected

\* persisted: a periodic snapshot and an unflagged one from the caller, and
\* a first snapshot from the driver
C12_Witness ==
    \E i, j, k \in 1..Len(snapshots) :
        /\ reasons[snapshots[i].id] = "periodic_snapshot"
        /\ snapshots[i].change_detected
        /\ reasons[snapshots[j].id] = "no_significant_changes"
        /\ ~ snapshots[j].change_detected
        /\ reasons[snapshots[k].id] = "first_snapshot"
        /\ snapshots[k].likes_count = 0
        /\ snapshots[k].change_detected

\* the registry holds no row with this id
UnknownProfile(profile_id) ==
    ~ \E i \in 1..Len(profiles) : profiles[i].id = profile_id

(* C13: create_snapshot called with a profile id that no row of the        *)
(* registry carries raises, and writes nothing: no row is inserted and     *)
(* the table is the same after the call.                                   *)
C13_UnknownEntityRejected ==
    [][\A w \in Workers :
         (/\ workers[w].pc = "create"
          /\ workers'[w].pc # "create"
          /\ UnknownProfile(workers[w].profile_id))
            => /\ workers'[w].pc = "raised"
               /\ workers'[w].exception.type = "ForeignKeyViolation"
               /\ workers'[w].inserted = NoRow
               /\ snapshots' = snapshots]_vars

\* the call failed for an id beside the registered one, the table not empty
C13_Witness ==
    \E w \in Workers :
        /\ workers[w].pc = "raised"
        /\ workers[w].exception.type = "ForeignKeyViolation"
        /\ workers[w].profile_id = UnknownProfileId
        /\ UnknownProfile(workers[w].profile_id)
        /\ Len(profiles) > 0
        /\ Len(snapshots) > 0

\* the ids the registry can hand out
ProfileIds == 1..(MaxProfileSeq + 1)

\* the step in which worker w's create_snapshot commits its row
AppendStep(w) == workers[w].pc = "commit" /\ workers'[w].pc # "commit"

(* C14: should_create_snapshot writes nothing: the registry, the snapshot  *)
(* table and both sequences are the same after it.  A profile without      *)
(* snapshots gets its first one only in the commit of a create_snapshot    *)
(* for it, and a profile that has snapshots keeps having them.             *)
C14_DecideIsPure ==
    [][/\ \A w \in Workers :
            DecideStep(w) => /\ profiles' = profiles
                             /\ snapshots' = snapshots
                             /\ profile_seq' = profile_seq
                             /\ snapshot_seq' = snapshot_seq
       /\ \A p \in ProfileIds :
            /\ (SnapshotsOf(snapshots, p) = {} /\ SnapshotsOf(snapshots', p) # {})
                  => \E w \in Workers : AppendStep(w) /\ workers[w].profile_id = p
            /\ SnapshotsOf(snapshots, p) # {} => SnapshotsOf(snapshots', p) # {}]_vars

\* a decision was taken against a baseline of a tracked profile and asks
\* for a snapshot
C14_Witness ==
    \E w \in Workers :
        /\ Decided(w)
        /\ workers[w].pc = "create"
        /\ workers[w].last_snapshot # NoRow
        /\ Len(profiles) > 0
        /\ SnapshotsOf(snapshots, workers[w].profile_id) # {}

\* the rows of the registry under the normalized key
RowsOfKey(rows, username) ==
    {i \in 1..Len(rows) : rows[i].username = Lower(username)}

(* C15: calls of get_or_create_profile that run one after the other: a     *)
(* call for a key without a row inserts one row under the normalized key   *)
(* and returns its id; a call for a key that has a row returns the id of   *)
(* that row, inserts nothing and changes nothing but last_checked of that  *)
(* row; a key never has two rows.                                          *)
C15_SequentialResolve ==
    [][/\ workers[Driver].pc = "insert" /\ workers'[Driver].pc # "insert"
          => /\ workers'[Driver].pc = "decide"
             /\ Len(profiles') = Len(profiles) + 1
             /\ \A i \in 1..Len(profiles) : profiles'[i] = profiles[i]
             /\ RowsOfKey(profiles', workers[Driver].username) = {Len(profiles')}
             /\ workers'[Driver].profile_id = profiles'[Len(profiles')].id
       /\ workers[Driver].pc = "update" /\ workers'[Driver].pc # "update"
          => /\ workers'[Driver].pc = "decide"
             /\ Len(profiles') = Len(profiles)
             /\ \E i \in RowsOfKey(profiles, workers[Driver].username) :
                   /\ RowsOfKey(profiles, workers[Driver].username) = {i}
                   /\ workers'[Driver].profile_id = profiles[i].id
                   /\ profiles' = [profiles EXCEPT
                                     ![i].last_checked = profiles'[i].last_checked]]_vars

(* C16: get_last_snapshot returns no row exactly when the profile has no   *)
(* snapshot, and otherwise the profile's snapshot with the greatest         *)
(* snapshot_timestamp, among several with that timestamp the one inserted  *)
(* last (the greatest id).                                                 *)
C16_LatestDeterministic ==
    [][\A w \in Workers :
         DecideStep(w) =>
            LET own == SnapshotsOf(snapshots, workers[w].profile_id)
            IN IF own = {}
               THEN workers'[w].last_snapshot = NoRow
               ELSE \E i \in own :
                      /\ workers'[w].last_snapshot = snapshots[i]
                      /\ \A k \in own :
                            \/ snapshots[k].snapshot_timestamp
                                  < snapshots[i].snapshot_timestamp
                            \/ /\ snapshots[k].snapshot_timestamp
                                     = snapshots[i].snapshot_timestamp
                               /\ snapshots[k].id <= snapshots[i].id]_vars

(* C17: a decision against a baseline for which calculate_changes reports  *)
(* a change returns (True, metrics_changed) with the changes and the id of *)
(* the baseline it read, whatever the age of the baseline; a decision      *)
(* returns periodic_snapshot only if nothing changed.                      *)
C17_ChangeBeforeStaleness ==
    \A w \in Workers :
        (Decided(w) /\ workers[w].last_snapshot # NoRow) =>
            LET det == calculate_changes(workers[w].profile_data,
                                         workers[w].last_snapshot)
            IN /\ det.has_changed =>
                    /\ Returned(w, TRUE, "metrics_changed")
                    /\ workers[w].decision.change_analysis
                          = [reason |-> "metrics_changed",
                             changes |-> det.changes,
                             previous_snapshot_id |-> workers[w].last_snapshot.id]
               /\ workers[w].decision.change_analysis.reason = "periodic_snapshot"
                    => ~ det.has_changed

\* the change was reported against a baseline older than 7 days
C17_Witness ==
    \E w \in Workers :
        /\ Decided(w)
        /\ workers[w].pc = "create"
        /\ workers[w].last_snapshot # NoRow
        /\ ticked = 0
        /\ now - workers[w].last_snapshot.snapshot_timestamp
              > StalenessDays * TicksPerDay
        /\ Returned(w, TRUE, "metrics_changed")
        /\ workers[w].decision.change_analysis.previous_snapshot_id = 1
        /\ DOMAIN workers[w].decision.change_analysis.changes = {"likes_count"}

\* the metric meets one of the two conditions under which it is recorded
ChangeCondition(base, cur) ==
    \/ base = 0 /\ cur > 0
    \/ base > 0 /\ 100 * Abs(cur - base) >= base

(* C18: calculate_changes reports a change exactly when its map of changes *)
(* is not empty; the map holds exactly the tracked metrics that meet a     *)
(* change condition, each with the baseline's value as old, the            *)
(* observation's as new and their difference as absolute change; a metric  *)
(* that is 0 in both has no entry.                                         *)
C18_ChangesMap ==
    \A w \in Workers :
        (Decided(w) /\ workers[w].last_snapshot # NoRow) =>
            LET changes == workers[w].decision.changes
            IN /\ workers[w].decision.has_changed <=> (DOMAIN changes # {})
               /\ DOMAIN changes \subseteq MetricNames
               /\ \A m \in MetricNames :
                     LET base == workers[w].last_snapshot[m]
                         cur == workers[w].profile_data[m]
                     IN /\ (m \in DOMAIN changes) <=> ChangeCondition(base, cur)
                        /\ (base = 0 /\ cur = 0) => m \notin DOMAIN changes
                        /\ (m \in DOMAIN changes) =>
                              /\ changes[m].old_value = base
                              /\ changes[m].new_value = cur
                              /\ changes[m].absolute_change = cur - base

\* one decision with a fall off a positive baseline and a rise off zero
\* recorded, and two metrics without an entry, one of them 0 in both
C18_Witness ==
    \E w \in Workers :
        /\ Decided(w)
        /\ workers[w].last_snapshot # NoRow
        /\ workers[w].last_snapshot.followers_count = 100
        /\ workers[w].profile_data.followers_count = 0
        /\ workers[w].last_snapshot.likes_count = 0
        /\ workers[w].profile_data.likes_count = 101
        /\ workers[w].last_snapshot.following_count = 0
        /\ workers[w].profile_data.following_count = 0
        /\ workers[w].last_snapshot.video_count = 100
        /\ workers[w].profile_data.video_count = 100
        /\ DOMAIN workers[w].decision.changes = {"followers_count", "likes_count"}
        /\ workers[w].decision.changes.followers_count.absolute_change = -100

(* C19: a call of get_or_create_profile that finds the key registered      *)
(* leaves the row with the attributes of the new observation and with      *)
(* last_checked set to the time of the call; no step removes a row of the  *)
(* registry.                                                               *)
C19_AttributesUpdated ==
    [][/\ \A w \in Workers :
            (workers[w].pc = "update" /\ workers'[w].pc # "update") =>
                \E i \in 1..Len(profiles') :
                    /\ profiles'[i].id = workers[w].profile_id
                    /\ profiles'[i].last_checked = now
                    /\ profiles'[i].attrs = workers[w].profile_data.attrs
       /\ Len(profiles') >= Len(profiles)
       /\ \A i \in 1..Len(profiles) : profiles'[i].id = profiles[i].id]_vars

\* the worker is inside one of the three methods of the core, or between them
InCore(w) ==
    workers[w].pc \in {"resolve", "update", "insert", "decide", "create", "commit"}

(* C20: the step in which a driver takes a username and has it scraped     *)
(* changes neither table; it enters get_or_create_profile only with the    *)
(* data scrape_profile returned, and where scrape_profile returned nothing *)
(* it records the failure and is at the next username.  No worker is       *)
(* inside the core without data.                                           *)
C20_FailedAcquisition ==
    [][\A w \in Workers :
         /\ (workers[w].pc = "idle" /\ workers'[w] # workers[w]) =>
               /\ profiles' = profiles
               /\ snapshots' = snapshots
               /\ profile_seq' = profile_seq
               /\ snapshot_seq' = snapshot_seq
               /\ \/ /\ workers'[w].pc = "resolve"
                     /\ workers'[w].profile_data # NoData
                     /\ workers'[w].profile_data \in inputs[workers'[w].username]
                  \/ /\ workers'[w].pc = "idle"
                     /\ workers'[w].result = "failed"
                     /\ workers'[w].profile_data = NoData
         /\ InCore(w)' => workers'[w].profile_data # NoData]_vars

\* a cycle ended in a failed acquisition on a database that holds a
\* profile and a snapshot
C20_Witness ==
    \E w \in Workers :
        /\ workers[w].pc = "idle"
        /\ workers[w].result = "failed"
        /\ Len(profiles) > 0
        /\ Len(snapshots) > 0

(* C21: in every state every persisted snapshot with a                     *)
(* previous_snapshot_id refers to a persisted snapshot of the same profile *)
(* with a smaller id.                                                      *)
C21_BackReferences ==
    \A i \in 1..Len(snapshots) :
        snapshots[i].previous_snapshot_id # None =>
            \E j \in 1..Len(snapshots) :
                /\ snapshots[j].id = snapshots[i].previous_snapshot_id
                /\ snapshots[j].profile_id = snapshots[i].profile_id
                /\ snapshots[j].id < snapshots[i].id

\* a snapshot refers to its predecessor although a snapshot of another
\* profile was inserted between the two and carries a later timestamp
C21_Witness ==
    \E i, j, k \in 1..Len(snapshots) :
        /\ snapshots[i].previous_snapshot_id = snapshots[j].id
        /\ snapshots[k].profile_id # snapshots[i].profile_id
        /\ snapshots[j].id < snapshots[k].id
        /\ snapshots[k].id < snapshots[i].id
        /\ snapshots[j].snapshot_timestamp < snapshots[k].snapshot_timestamp

\* the snapshot of the profile that was persisted last
LatestPersisted(profile_id) ==
    LET own == SnapshotsOf(snapshots, profile_id)
    IN snapshots[CHOOSE i \in own : \A k \in own : k <= i]

\* some tracked metric of the observation meets a change condition against
\* the baseline
DiffersFrom(last, data) ==
    \E m \in MetricNames : ChangeCondition(last[m], data[m])

(* C22: in the sequential cycles over an account that drifts by less than  *)
(* the threshold per cycle, every decision compares the observation with   *)
(* the snapshot of the profile persisted last: when they differ by at      *)
(* least the threshold the cycle goes on to create a snapshot with reason  *)
(* metrics_changed that refers to that snapshot, when they do not the      *)
(* cycle creates nothing; the table changes only by the append of the      *)
(* observation a cycle decided to persist.                                 *)
C22_BaselineIsLatestPersisted ==
    [][/\ (/\ DecideStep(Driver)
           /\ SnapshotsOf(snapshots, workers[Driver].profile_id) # {})
          => LET latest == LatestPersisted(workers[Driver].profile_id)
             IN /\ workers'[Driver].last_snapshot = latest
                /\ DiffersFrom(latest, workers[Driver].profile_data)
                      => /\ workers'[Driver].pc = "create"
                         /\ workers'[Driver].decision.change_analysis.reason
                               = "metrics_changed"
                         /\ workers'[Driver].decision.change_analysis.previous_snapshot_id
                               = latest.id
                /\ ~ DiffersFrom(latest, workers[Driver].profile_data)
                      => workers'[Driver].pc # "create"
       /\ snapshots' # snapshots
          => /\ workers[Driver].pc = "commit"
             /\ Len(snapshots') = Len(snapshots) + 1
             /\ \A i \in 1..Len(snapshots) : snapshots'[i] = snapshots[i]
             /\ snapshots'[Len(snapshots')].profile_id = workers[Driver].profile_id
             /\ \A m \in MetricNames :
                   snapshots'[Len(snapshots')][m] = workers[Driver].profile_data[m]]_vars

\* the account went from 200 followers to 202 one follower per cycle: the
\* snapshot of 202 followers was created for the reason metrics_changed and
\* refers to the snapshot of 200 followers, no snapshot holds 201
C22_Witness ==
    \E i, j \in 1..Len(snapshots) :
        /\ reasons[snapshots[i].id] = "metrics_changed"
        /\ snapshots[i].followers_count = DriftBase.followers_count + 2
        /\ snapshots[i].previous_snapshot_id = snapshots[j].id
        /\ snapshots[j].followers_count = DriftBase.followers_count
        /\ \A k \in 1..Len(snapshots) :
              snapshots[k].followers_count # DriftBase.followers_count + 1

(* C23: in sequential cycles, a decision on an observation of non-negative *)
(* metrics that equal those of the profile's snapshot persisted last,      *)
(* taken within the staleness window, returns                              *)
(* (False, no_significant_changes) and the cycle ends without a snapshot.  *)
C23_SequentialConvergence ==
    [][(/\ DecideStep(Driver)
        /\ SnapshotsOf(snapshots, workers[Driver].profile_id) # {}
        /\ \A m \in MetricNames : workers[Driver].profile_data[m] >= 0
        /\ Unchanged(workers[Driver].profile_data,
                     LatestPersisted(workers[Driver].profile_id))
        /\ now - LatestPersisted(workers[Driver].profile_id).snapshot_timestamp
              <= StalenessDays * TicksPerDay)
          => /\ workers'[Driver].decision.raised = ""
             /\ ~ workers'[Driver].decision.should_create
             /\ workers'[Driver].decision.change_analysis.reason
                   = "no_significant_changes"
             /\ workers'[Driver].pc = "sleep"]_vars

====
